---- MODULE Spec2Model ----
(***************************************************************************)
(* Model of simulations/dos_resilience.py: the AdmissionController, the    *)
(* bounded processing queue and the discrete-time loop of                  *)
(* DoSSimulator.simulate_scenario.                                         *)
(*                                                                         *)
(* Units.  The code computes with floats; the model computes with exact    *)
(* integers:                                                               *)
(*   - times (current_time, timestamp, duration) are in milliseconds;      *)
(*   - a load fraction is a pair <<num, den>>, den > 0, standing for       *)
(*     num / den; the thresholds 0.60 / 0.80 / 0.95 are kept in percent;   *)
(*   - a latency is kept multiplied by capacity_tps (ms * capacity_tps),   *)
(*     so that queue_depth / capacity_tps * 1000 stays exact;              *)
(*   - a raw draw of the random generator is a number in 0..RawSpace-1,    *)
(*     and each numpy call maps one raw draw into its own range.           *)
(*   - the clock of the loop is also kept as the code computes it, in      *)
(*     binary64 (variable clock), for the steps that floats do not add     *)
(*     exactly.                                                            *)
(***************************************************************************)
EXTENDS Integers, Sequences, FiniteSets, TLC

VARIABLES
    pc,                       \* position: none, idle, loop, step, done, raised, ctl
    error,                    \* exception that left the program, or "none"
    capacity_tps,             \* DoSSimulator.capacity_tps
    legitimate_tps,           \* DoSSimulator.legitimate_tps
    rng,                      \* DoSSimulator.rng: [seed, pos] of the generator
    tape,                     \* the stream each seed produces, as far as drawn
    sims,                     \* DoSSimulator objects constructed so far
    runs,                     \* simulate_scenario calls on the current object
    rate_limit,               \* AdmissionController.rate_limit
    identity_last_access,     \* AdmissionController.identity_last_access
    scenario,                 \* simulate_scenario argument (its attack_tps)
    duration_ms,              \* simulate_scenario argument duration_s, in ms
    time_step_ms,             \* simulate_scenario argument
    current_time,             \* local current_time, in ms
    legitimate_admitted,
    legitimate_dropped,
    attack_filtered,
    legitimate_latencies_ms,  \* list of latencies, each times capacity_tps
    queue_depth,
    n_legit,
    n_attack,
    i_legit,                  \* arrivals of the legitimate loop already processed
    i_attack,                 \* arrivals of the attack loop already processed
    load_fraction,            \* the step's load fraction <<num, den>>
    results,                  \* the DoSResult values returned so far
    legit_generated,          \* history: sum of n_legit over the steps begun
    attack_generated,         \* history: sum of n_attack over the steps begun
    saturated,                \* history: whether in every step begun the arrivals alone,
                              \* and the attack arrivals alone, reached capacity
    step_depth,               \* history: queue_depth when the current step began
    reported,                 \* the drop_rate values read from the returned DoSResults
    last_call,                \* history: the latest admit_transaction call
    admitted_log,             \* history: <<identity, timestamp>> of admitted calls
    overflow,                 \* history: <<identity, timestamp>> of the admitted calls
                              \* whose transaction did not enter the queue
    clock,                    \* the loop's time_step_s, duration_s and current_time as
                              \* binary64 values, with the iterations executed
    probe                     \* the latest get_congestion_mode probes

vars == <<pc, error, capacity_tps, legitimate_tps, rng, tape, sims, runs,
          rate_limit, identity_last_access, scenario, duration_ms, time_step_ms,
          current_time, legitimate_admitted, legitimate_dropped, attack_filtered,
          legitimate_latencies_ms, queue_depth, n_legit, n_attack, i_legit,
          i_attack, load_fraction, results, legit_generated, attack_generated,
          saturated, step_depth, reported, last_call, admitted_log, overflow,
          clock, probe>>

runVars == <<pc, error, capacity_tps, legitimate_tps, rng, tape, sims, runs,
             rate_limit, identity_last_access, scenario, duration_ms, time_step_ms,
             current_time, legitimate_admitted, legitimate_dropped, attack_filtered,
             legitimate_latencies_ms, queue_depth, n_legit, n_attack, i_legit,
             i_attack, load_fraction, results, legit_generated, attack_generated,
             saturated, step_depth, reported, last_call, admitted_log, overflow,
             probe>>

simVars == <<capacity_tps, legitimate_tps, rng, tape, sims, runs, scenario,
             duration_ms, time_step_ms, current_time, legitimate_admitted,
             legitimate_dropped, attack_filtered, legitimate_latencies_ms,
             queue_depth, n_legit, n_attack, i_legit, i_attack, load_fraction,
             results, legit_generated, attack_generated, saturated, step_depth,
             reported, overflow, clock>>

(***************************************************************************)
(* Bounds of the exploration.                                              *)
(***************************************************************************)
\* raw draws range over 0..RawSpace-1
RawSpace == 4
\* largest arrival count one Poisson draw yields
MaxArrivals == 1
\* identities rng.integers(1_000_000) ranges over, scaled down
LegitIdSpace == 2
\* identities rng.integers(10_000_000) ranges over, scaled down
AttackIdSpace == 2
\* mempool capacity max_queue (100_000 in the source), scaled down
max_queue == 1
\* DoSSimulator objects constructed in one behaviour of SpecSeeded
MaxSims == 2
\* simulate_scenario calls in one behaviour of SpecSeeded
MaxRuns == 2
\* draws recorded over all seeds in SpecSeeded
TapeMax == 5
\* probes of get_congestion_mode lie on the grid 0/LoadDen .. LoadDen/LoadDen
LoadDen == 20

(***************************************************************************)
(* Program constants.                                                      *)
(***************************************************************************)
RANDOM_SEED == 42
rate_limit_per_sec == 5
elevated_threshold == 60
high_threshold == 80
critical_threshold == 95
base_latency == 371
min_latency == 100
jitter_sigma == 50

Raw == 0 .. (RawSpace - 1)
Tiers == {0, 1, 2, 3}
Unrecorded == [s \in {} |-> <<>>]
EmptyMap == [x \in {} |-> 0]
NoCall == [kind |-> "none"]
NoClock == [pc |-> "none"]
Min(a, b) == IF a < b THEN a ELSE b
Max(a, b) == IF a > b THEN a ELSE b

(***************************************************************************)
(* AdmissionController                                                     *)
(***************************************************************************)
\* load < pct/100, for a load fraction <<num, den>>
LoadBelow(load, pct) == load[1] * 100 < pct * load[2]

\* mutant: the thresholds compared with <= instead of <
get_congestion_mode_inclusive(load) ==
    IF load[1] * 100 <= elevated_threshold * load[2] THEN "normal"
    ELSE IF load[1] * 100 <= high_threshold * load[2] THEN "elevated"
    ELSE IF load[1] * 100 <= critical_threshold * load[2] THEN "high"
    ELSE "critical"

get_congestion_mode(load) ==
    IF LoadBelow(load, elevated_threshold) THEN "normal"
    ELSE IF LoadBelow(load, high_threshold) THEN "elevated"
    ELSE IF LoadBelow(load, critical_threshold) THEN "high"
    ELSE "critical"

\* rng.random() < tenths/10, the draw being raw / RawSpace
RandomBelow(raw, tenths) == raw * 10 < tenths * RawSpace

\* mutant: the draw is taken for every tier-0 transaction in elevated mode
ThrottleDraws_tier0(tier, has_fee, load) ==
    IF get_congestion_mode(load) = "elevated" /\ tier = 0 THEN 1 ELSE 0

\* whether the elevated branch takes its rng.random() draw
ThrottleDraws(tier, has_fee, load) ==
    IF get_congestion_mode(load) = "elevated" /\ tier = 0 /\ ~has_fee THEN 1 ELSE 0

\* mutant: critical mode rejects only when both conditions fail
ModeGate_and(tier, has_fee, load, u) ==
    LET mode == get_congestion_mode(load) IN
    IF mode = "critical"
    THEN (IF tier < 2 /\ ~has_fee THEN "critical_mode_rejection" ELSE "pass")
    ELSE IF mode = "high"
    THEN (IF tier = 0 THEN "tier0_suspended"
          ELSE IF ~has_fee THEN "fee_required" ELSE "pass")
    ELSE IF mode = "elevated"
    THEN (IF tier = 0 /\ ~has_fee /\ RandomBelow(u, 5)
          THEN "tier0_throttled" ELSE "pass")
    ELSE "pass"

\* mutant: high mode tests the fee before the tier
ModeGate_feefirst(tier, has_fee, load, u) ==
    LET mode == get_congestion_mode(load) IN
    IF mode = "critical"
    THEN (IF tier < 2 \/ ~has_fee THEN "critical_mode_rejection" ELSE "pass")
    ELSE IF mode = "high"
    THEN (IF ~has_fee THEN "fee_required"
          ELSE IF tier = 0 THEN "tier0_suspended" ELSE "pass")
    ELSE IF mode = "elevated"
    THEN (IF tier = 0 /\ ~has_fee /\ RandomBelow(u, 5)
          THEN "tier0_throttled" ELSE "pass")
    ELSE "pass"

\* mutant: the elevated branch returns a reason outside the enumeration
ModeGate_reason(tier, has_fee, load, u) ==
    LET mode == get_congestion_mode(load) IN
    IF mode = "critical"
    THEN (IF tier < 2 \/ ~has_fee THEN "critical_mode_rejection" ELSE "pass")
    ELSE IF mode = "high"
    THEN (IF tier = 0 THEN "tier0_suspended"
          ELSE IF ~has_fee THEN "fee_required" ELSE "pass")
    ELSE IF mode = "elevated"
    THEN (IF tier = 0 /\ ~has_fee /\ RandomBelow(u, 5)
          THEN "throttled" ELSE "pass")
    ELSE "pass"

\* the congestion-mode rules: a rejection reason, or "pass"
ModeGate(tier, has_fee, load, u) ==
    LET mode == get_congestion_mode(load) IN
    IF mode = "critical"
    THEN (IF tier < 2 \/ ~has_fee THEN "critical_mode_rejection" ELSE "pass")
    ELSE IF mode = "high"
    THEN (IF tier = 0 THEN "tier0_suspended"
          ELSE IF ~has_fee THEN "fee_required" ELSE "pass")
    ELSE IF mode = "elevated"
    THEN (IF tier = 0 /\ ~has_fee /\ RandomBelow(u, 5)
          THEN "tier0_throttled" ELSE "pass")
    ELSE "pass"

\* mutant: a second call at the very timestamp of the first is let through
RateLimited_positive(dt, rate) ==
    dt # 0 /\ (IF rate > 0 THEN dt * rate < 1000 ELSE dt * rate > 1000)

\* mutant: the window taken as rate_limit per minute instead of per second
RateLimited_window(dt, rate) ==
    IF rate > 0 THEN dt * rate * 60 < 1000 ELSE dt * rate * 60 > 1000

\* time_since_last < 1.0 / rate_limit, for a difference dt in ms and rate # 0
RateLimited(dt, rate) ==
    IF rate > 0 THEN dt * rate < 1000 ELSE dt * rate > 1000

\* mutant: the access of an admitted call is not recorded
RecordAccess_skip(last_access, identity, timestamp) == last_access

\* self.identity_last_access[identity] = timestamp
RecordAccess(last_access, identity, timestamp) ==
    [x \in (DOMAIN last_access) \cup {identity} |->
        IF x = identity THEN timestamp ELSE last_access[x]]

\* mutant: the last access is recorded before the rate-limit check, so a
\* rate-limited attempt extends the window
admit_transaction_touch(identity, tier, has_fee, timestamp, load, last_access, rate, u) ==
    LET gate == ModeGate(tier, has_fee, load, u)
        draws == ThrottleDraws(tier, has_fee, load)
        out(a, r, la, e) ==
            [admitted |-> a, reason |-> r, last_access |-> la,
             draws |-> draws, draw |-> u, raised |-> e, gate |-> gate]
    IN  IF gate # "pass" THEN out(FALSE, gate, last_access, "none")
        ELSE IF identity \in DOMAIN last_access /\ rate = 0
        THEN out(FALSE, "none", last_access, "ZeroDivisionError")
        ELSE IF identity \in DOMAIN last_access
                /\ RateLimited(timestamp - last_access[identity], rate)
        THEN out(FALSE, "rate_limited",
                 RecordAccess(last_access, identity, timestamp), "none")
        ELSE out(TRUE, "admitted", RecordAccess(last_access, identity, timestamp), "none")

\* admit_transaction: u is the raw draw of rng.random(), read only in the
\* elevated branch.  Returns the pair (admitted, reason), the identity table
\* after the call, the number of draws consumed, the draw and the exception
\* raised.
admit_transaction(identity, tier, has_fee, timestamp, load, last_access, rate, u) ==
    LET gate == ModeGate(tier, has_fee, load, u)
        draws == ThrottleDraws(tier, has_fee, load)
        out(a, r, la, e) ==
            [admitted |-> a, reason |-> r, last_access |-> la,
             draws |-> draws, draw |-> u, raised |-> e, gate |-> gate]
    IN  IF gate # "pass" THEN out(FALSE, gate, last_access, "none")
        ELSE IF identity \in DOMAIN last_access /\ rate = 0
        THEN out(FALSE, "none", last_access, "ZeroDivisionError")
        ELSE IF identity \in DOMAIN last_access
                /\ RateLimited(timestamp - last_access[identity], rate)
        THEN out(FALSE, "rate_limited", last_access, "none")
        ELSE out(TRUE, "admitted", RecordAccess(last_access, identity, timestamp), "none")

\* the history record of one admit_transaction call: its arguments, the
\* identity table, the admissions and the queue depth before it, its result
CallRecord(kind, identity, tier, has_fee, timestamp, load, before, rate, r) ==
    [kind |-> kind, identity |-> identity, tier |-> tier, has_fee |-> has_fee,
     timestamp |-> timestamp, load |-> load, before |-> before, rate |-> rate,
     prior |-> admitted_log, depth |-> queue_depth,
     admitted |-> r.admitted, reason |-> r.reason, gate |-> r.gate,
     draws |-> r.draws, draw |-> r.draw, raised |-> r.raised]

LogAdmitted(log, identity, timestamp, r) ==
    IF r.admitted THEN log \cup {<<identity, timestamp>>} ELSE log

(***************************************************************************)
(* The controller on its own: constructed once, then called with any       *)
(* identity, tier, fee flag, timestamp and load fraction.                  *)
(***************************************************************************)
CtlIdentities == {<<"legit", 0>>, <<"legit", 1>>}
CtlTimestamps == {0, 199, 200}
CtlLoads == {<<59, 100>>, <<60, 100>>, <<80, 100>>, <<94, 100>>, <<95, 100>>}
CtlCapacities == {40}
ValidCapacities == {4, 40}
ValidRates == {rate_limit_per_sec}

InitCommon ==
    /\ pc = "none"
    /\ error = "none"
    /\ capacity_tps = 0
    /\ legitimate_tps = 0
    /\ rng = [seed |-> RANDOM_SEED, pos |-> 0]
    /\ sims = 0
    /\ runs = 0
    /\ rate_limit = 0
    /\ identity_last_access = EmptyMap
    /\ scenario = [attack_tps |-> 0]
    /\ duration_ms = 0
    /\ time_step_ms = 0
    /\ current_time = 0
    /\ legitimate_admitted = 0
    /\ legitimate_dropped = 0
    /\ attack_filtered = 0
    /\ legitimate_latencies_ms = <<>>
    /\ queue_depth = 0
    /\ n_legit = 0
    /\ n_attack = 0
    /\ i_legit = 0
    /\ i_attack = 0
    /\ load_fraction = <<0, 1>>
    /\ results = <<>>
    /\ legit_generated = 0
    /\ attack_generated = 0
    /\ saturated = [arrivals |-> TRUE, attack |-> TRUE]
    /\ step_depth = 0
    /\ reported = <<>>
    /\ last_call = NoCall
    /\ admitted_log = {}
    /\ overflow = {}
    /\ clock = NoClock
    /\ probe = <<>>

\* AdmissionController.__init__
ControllerInit(cap, rate) ==
    /\ pc = "none"
    /\ pc' = "ctl"
    /\ capacity_tps' = cap
    /\ rate_limit' = rate
    /\ identity_last_access' = EmptyMap
    /\ UNCHANGED <<error, legitimate_tps, rng, tape, sims, runs, scenario,
                   duration_ms, time_step_ms, current_time, legitimate_admitted,
                   legitimate_dropped, attack_filtered, legitimate_latencies_ms,
                   queue_depth, n_legit, n_attack, i_legit, i_attack,
                   load_fraction, results, legit_generated, attack_generated,
                   saturated, step_depth, reported, last_call, admitted_log,
                   overflow,
                   clock, probe>>

CtlConstruct == \E cap \in CtlCapacities, rate \in ValidRates : ControllerInit(cap, rate)

\* one call of admit_transaction on the controller
CtlCall ==
    /\ pc = "ctl"
    /\ \E identity \in CtlIdentities, tier \in Tiers, has_fee \in BOOLEAN,
          timestamp \in CtlTimestamps, load \in CtlLoads :
        \E u \in (IF ThrottleDraws(tier, has_fee, load) = 1 THEN Raw ELSE {0}) :
        LET r == admit_transaction(identity, tier, has_fee, timestamp, load,
                                   identity_last_access, rate_limit, u)
        IN  /\ identity_last_access' = r.last_access
            /\ last_call' = CallRecord("direct", identity, tier, has_fee, timestamp,
                                       load, identity_last_access, rate_limit, r)
            /\ admitted_log' = LogAdmitted(admitted_log, identity, timestamp, r)
            /\ error' = r.raised
            /\ pc' = IF r.raised = "none" THEN "ctl" ELSE "raised"
    /\ UNCHANGED <<simVars, rate_limit, probe>>

\* one evaluation of get_congestion_mode; the two latest probes are kept
GetMode ==
    /\ \E n \in 0 .. LoadDen :
        probe' = <<[load |-> <<n, LoadDen>>, mode |-> get_congestion_mode(<<n, LoadDen>>)]>>
                 \o (IF probe = <<>> THEN <<>> ELSE <<probe[1]>>)
    /\ UNCHANGED <<pc, error, simVars, rate_limit, identity_last_access,
                   last_call, admitted_log>>

(***************************************************************************)
(* The random generator.  get_rng(seed) returns a generator whose stream   *)
(* is fixed by the seed: tape[seed] holds the stream as far as it has been *)
(* drawn, rng.pos the number of draws the current generator has taken.     *)
(* With an empty tape the stream is not tracked and every draw is      *)
(* arbitrary.                                                              *)
(***************************************************************************)
Seeds == {RANDOM_SEED, RANDOM_SEED + 1}

\* mutant: one shared generator, not reseeded at construction
get_rng_shared(seed) == [seed |-> seed, pos |-> Len(tape[seed])]

get_rng(seed) == [seed |-> seed, pos |-> 0]

\* whether the stream of the current generator is tracked
Tracked == rng.seed \in DOMAIN tape

\* draws recorded over all seeds
Recorded == Len(tape[RANDOM_SEED]) + Len(tape[RANDOM_SEED + 1])

\* one raw value for each value the mapping F (a function on Raw) of a
\* numpy call can return
Reps(F) == {r \in Raw : \A q \in 0 .. (r - 1) : F[q] # F[r]}

\* the values the k-th draw from now may take, the call mapping it with F:
\* the recorded value when the stream is tracked and already drawn that
\* far, any value otherwise (one per result of the call when untracked)
DrawSet(k, F) ==
    IF ~Tracked THEN Reps(F)
    ELSE IF rng.pos + k <= Len(tape[rng.seed]) THEN {tape[rng.seed][rng.pos + k]}
    ELSE Raw

\* the values of a draw that is taken only when need = 1
Opt(need, k, F) == IF need = 1 THEN DrawSet(k, F) ELSE {0}

\* the generator after the draws ds were taken, in this order
Advance(ds) ==
    IF ~Tracked THEN UNCHANGED <<rng, tape>>
    ELSE LET t == tape[rng.seed]
             fresh == rng.pos + Len(ds) - Len(t)
         IN  /\ (fresh > 0 => Recorded + fresh <= TapeMax)
             /\ rng' = [rng EXCEPT !.pos = rng.pos + Len(ds)]
             /\ tape' = IF fresh > 0
                        THEN [tape EXCEPT ![rng.seed] =
                                 t \o SubSeq(ds, Len(ds) - fresh + 1, Len(ds))]
                        ELSE tape

\* mutant: a Poisson draw that ignores a zero rate
Poisson_anyrate(rate, raw) == raw % (MaxArrivals + 1)

\* rng.poisson(rate): 0 when the rate is 0, any count otherwise
Poisson(rate, raw) == IF rate = 0 THEN 0 ELSE raw % (MaxArrivals + 1)

\* rng.choice([0, 1, 2, 3], p=[0.4, 0.3, 0.2, 0.1])
TierOf(raw) == raw % 4

\* rng.normal(0, 50)
Normal(raw) == IF raw % 2 = 0 THEN 0 - 6 * jitter_sigma ELSE jitter_sigma

Once(need, d) == IF need = 1 THEN <<d>> ELSE <<>>

(***************************************************************************)
(* DoSSimulator                                                            *)
(***************************************************************************)
implied_avg_tps == 289
LegitRates == {implied_avg_tps}
AttackRates == {0, 50000}
\* the (duration_s, time_step_ms) arguments explored, both in ms
RunArgs == {<<0, 125>>, <<250, 125>>, <<300, 250>>}

\* mutant: the arrivals divided by time_step_ms instead of time_step_s
LoadFraction_ms(total, step_ms, cap) ==
    IF total >= step_ms * cap THEN <<1, 1>> ELSE <<total, step_ms * cap>>

\* min(offered_tps / capacity_tps, 1.0), offered_tps = total / time_step_s
LoadFraction(total, step_ms, cap) ==
    IF total * 1000 >= step_ms * cap THEN <<1, 1>> ELSE <<total * 1000, step_ms * cap>>

\* mutant: the backlog left out of the offered transactions
Offered_arrivals(q, nl, na) == nl + na

\* the transactions a step offers: the backlog and the arrivals of the step
Offered(q, nl, na) == q + nl + na

\* mutant: the load fraction recomputed from the queue depth at each arrival
current_load_fraction_live ==
    LoadFraction(queue_depth + n_legit + n_attack, time_step_ms, capacity_tps)

\* the argument current_load_fraction of both admit_transaction calls of the
\* loop body: the load_fraction computed when the step began
current_load_fraction == load_fraction

\* whether the arrivals of a step alone, without the backlog, offer at least
\* capacity_tps: arrivals / time_step_s >= capacity_tps
Saturates(arrivals, step_ms, cap) == arrivals * 1000 >= step_ms * cap

\* mutant: an admitted arrival that finds the queue full counts as admitted
LegitOutcome_overcount(admitted, q, adm, drp) ==
    IF admitted
    THEN (IF q < max_queue
          THEN [queue_depth |-> q + 1, admitted |-> adm + 1, dropped |-> drp, sample |-> TRUE]
          ELSE [queue_depth |-> q, admitted |-> adm + 1, dropped |-> drp, sample |-> FALSE])
    ELSE [queue_depth |-> q, admitted |-> adm, dropped |-> drp + 1, sample |-> FALSE]

\* mutant: an admitted arrival that finds the queue full is not counted
LegitOutcome_uncounted(admitted, q, adm, drp) ==
    IF admitted
    THEN (IF q < max_queue
          THEN [queue_depth |-> q + 1, admitted |-> adm + 1, dropped |-> drp, sample |-> TRUE]
          ELSE [queue_depth |-> q, admitted |-> adm, dropped |-> drp, sample |-> FALSE])
    ELSE [queue_depth |-> q, admitted |-> adm, dropped |-> drp + 1, sample |-> FALSE]

\* the legitimate branch of the loop body: the queue, the two counters and
\* whether a latency sample is recorded
LegitOutcome(admitted, q, adm, drp) ==
    IF admitted
    THEN (IF q < max_queue
          THEN [queue_depth |-> q + 1, admitted |-> adm + 1, dropped |-> drp, sample |-> TRUE]
          ELSE [queue_depth |-> q, admitted |-> adm, dropped |-> drp + 1, sample |-> FALSE])
    ELSE [queue_depth |-> q, admitted |-> adm, dropped |-> drp + 1, sample |-> FALSE]

\* mutant: an admitted attack arrival that finds the queue full is counted
\* as filtered
AttackOutcome_fullfiltered(admitted, q, filtered) ==
    IF admitted /\ q < max_queue
    THEN [queue_depth |-> q + 1, filtered |-> filtered]
    ELSE [queue_depth |-> q, filtered |-> filtered + 1]

\* mutant: an admitted attack arrival is counted as filtered too
AttackOutcome_counted(admitted, q, filtered) ==
    IF admitted
    THEN [queue_depth |-> Min(q + 1, max_queue), filtered |-> filtered + 1]
    ELSE [queue_depth |-> q, filtered |-> filtered + 1]

\* mutant: the attack branch enqueues without the cap
AttackOutcome_uncapped(admitted, q, filtered) ==
    IF admitted
    THEN [queue_depth |-> q + 1, filtered |-> filtered]
    ELSE [queue_depth |-> q, filtered |-> filtered + 1]

\* the attack branch of the loop body
AttackOutcome(admitted, q, filtered) ==
    IF admitted
    THEN [queue_depth |-> Min(q + 1, max_queue), filtered |-> filtered]
    ELSE [queue_depth |-> q, filtered |-> filtered + 1]

\* max(100, base_latency + queue_latency + jitter), times capacity_tps
LatencyOf(q, cap, jitter) ==
    Max(min_latency * cap, (base_latency + jitter) * cap + q * 1000)

\* mutant: the capacity of the step subtracted without min and max
DrainQueue_unclamped(q, cap, step_ms) == q - (cap * step_ms) \div 1000

\* processed = min(queue_depth, int(capacity_tps * time_step_s))
DrainQueue(q, cap, step_ms) ==
    LET processed == Min(q, (cap * step_ms) \div 1000)
    IN  Max(0, q - processed)

\* np.percentile(latencies, 99), linear interpolation, times 100
Percentile99(lat) ==
    LET n == Len(lat)
        a == SortSeq(lat, LAMBDA x, y : x < y)
        h == 99 * (n - 1)
        lo == h \div 100
        hi == Min(lo + 1, n - 1)
    IN  100 * a[lo + 1] + (h % 100) * (a[hi + 1] - a[lo + 1])

\* mutant: no test for the empty list; the percentile of nothing is nan (0/0)
P99Latency_unguarded(lat, cap) ==
    IF lat # <<>> THEN [num |-> Percentile99(lat), den |-> 100 * cap]
    ELSE [num |-> 0, den |-> 0]

\* the p99 latency as a fraction [num / den] of a millisecond
P99Latency(lat, cap) ==
    IF lat # <<>> THEN [num |-> Percentile99(lat), den |-> 100 * cap]
    ELSE [num |-> 0, den |-> 1]

\* DoSSimulator.__init__
SimInit(cap, tps, seed, limit) ==
    /\ pc \in {"none", "idle", "done"}
    /\ sims < limit
    /\ pc' = "idle"
    /\ capacity_tps' = cap
    /\ legitimate_tps' = tps
    /\ rng' = get_rng(seed)
    /\ sims' = sims + 1
    /\ runs' = 0
    /\ UNCHANGED <<error, tape, rate_limit, identity_last_access, scenario,
                   duration_ms, time_step_ms, current_time, legitimate_admitted,
                   legitimate_dropped, attack_filtered, legitimate_latencies_ms,
                   queue_depth, n_legit, n_attack, i_legit, i_attack,
                   load_fraction, results, legit_generated, attack_generated,
                   saturated, step_depth, reported, last_call, admitted_log,
                   overflow,
                   clock, probe>>

\* mutant: the controller and the queue of the earlier run are kept
SimStart_reuse(atk, dur, step, limit) ==
    /\ pc \in {"idle", "done"}
    /\ Len(results) < limit
    /\ pc' = "loop"
    /\ runs' = runs + 1
    /\ rate_limit' = rate_limit_per_sec
    /\ scenario' = [attack_tps |-> atk]
    /\ duration_ms' = dur
    /\ time_step_ms' = step
    /\ current_time' = 0
    /\ legitimate_admitted' = 0
    /\ legitimate_dropped' = 0
    /\ attack_filtered' = 0
    /\ legitimate_latencies_ms' = <<>>
    /\ n_legit' = 0
    /\ n_attack' = 0
    /\ i_legit' = 0
    /\ i_attack' = 0
    /\ load_fraction' = <<0, 1>>
    /\ legit_generated' = 0
    /\ attack_generated' = 0
    /\ saturated' = [arrivals |-> TRUE, attack |-> TRUE]
    /\ step_depth' = 0
    /\ last_call' = NoCall
    /\ admitted_log' = {}
    /\ overflow' = {}
    /\ UNCHANGED <<identity_last_access, queue_depth, error, capacity_tps, legitimate_tps, rng, tape, sims,
                   results, reported, clock,
                   probe>>

\* simulate_scenario, up to the loop
SimStart(atk, dur, step, limit) ==
    /\ pc \in {"idle", "done"}
    /\ Len(results) < limit
    /\ pc' = "loop"
    /\ runs' = runs + 1
    /\ rate_limit' = rate_limit_per_sec
    /\ identity_last_access' = EmptyMap
    /\ scenario' = [attack_tps |-> atk]
    /\ duration_ms' = dur
    /\ time_step_ms' = step
    /\ current_time' = 0
    /\ legitimate_admitted' = 0
    /\ legitimate_dropped' = 0
    /\ attack_filtered' = 0
    /\ legitimate_latencies_ms' = <<>>
    /\ queue_depth' = 0
    /\ n_legit' = 0
    /\ n_attack' = 0
    /\ i_legit' = 0
    /\ i_attack' = 0
    /\ load_fraction' = <<0, 1>>
    /\ legit_generated' = 0
    /\ attack_generated' = 0
    /\ saturated' = [arrivals |-> TRUE, attack |-> TRUE]
    /\ step_depth' = 0
    /\ last_call' = NoCall
    /\ admitted_log' = {}
    /\ overflow' = {}
    /\ UNCHANGED <<error, capacity_tps, legitimate_tps, rng, tape, sims,
                   results, reported, clock,
                   probe>>

Construct ==
    \E cap \in ValidCapacities, tps \in LegitRates :
        SimInit(cap, tps, RANDOM_SEED, 1)

Simulate ==
    \E atk \in AttackRates, args \in RunArgs :
        SimStart(atk, args[1], args[2], 1)

\* the loop test, the two Poisson draws and the load fraction of the step
StepBegin ==
    /\ pc = "loop"
    /\ current_time < duration_ms
    /\ \E d_legit \in DrawSet(1, [x \in Raw |-> Poisson(legitimate_tps * time_step_ms, x)]),
          d_attack \in DrawSet(2, [x \in Raw |-> Poisson(scenario.attack_tps * time_step_ms, x)]) :
        LET nl == Poisson(legitimate_tps * time_step_ms, d_legit)
            na == Poisson(scenario.attack_tps * time_step_ms, d_attack)
        IN  /\ Advance(<<d_legit, d_attack>>)
            /\ n_legit' = nl
            /\ n_attack' = na
            /\ i_legit' = 0
            /\ i_attack' = 0
            /\ legit_generated' = legit_generated + nl
            /\ attack_generated' = attack_generated + na
            /\ saturated' =
                  [arrivals |-> saturated.arrivals
                                   /\ Saturates(nl + na, time_step_ms, capacity_tps),
                   attack |-> saturated.attack
                                 /\ Saturates(na, time_step_ms, capacity_tps)]
            /\ step_depth' = queue_depth
            /\ IF capacity_tps = 0
               THEN /\ pc' = "raised"
                    /\ error' = "ZeroDivisionError"
                    /\ UNCHANGED load_fraction
               ELSE /\ pc' = "step"
                    /\ load_fraction' = LoadFraction(Offered(queue_depth, nl, na),
                                                     time_step_ms, capacity_tps)
                    /\ UNCHANGED error
    /\ UNCHANGED <<capacity_tps, legitimate_tps, sims, runs, rate_limit,
                   identity_last_access, scenario, duration_ms, time_step_ms,
                   current_time, legitimate_admitted, legitimate_dropped,
                   attack_filtered, legitimate_latencies_ms, queue_depth,
                   results, reported, last_call, admitted_log, overflow,
                   clock, probe>>

\* mutant: only a tier-0 arrival can carry a fee
HasFee_tier0(tier, raw) == tier = 0 /\ RandomBelow(raw, 3)

\* has_fee = tier > 0 or rng.random() < 0.3
HasFee(tier, raw) == tier > 0 \/ RandomBelow(raw, 3)

\* one iteration of the legitimate loop
LegitArrival ==
    /\ pc = "step"
    /\ i_legit < n_legit
    /\ \E d_id \in DrawSet(1, [x \in Raw |-> x % LegitIdSpace]),
          d_tier \in DrawSet(2, [x \in Raw |-> TierOf(x)]) :
        LET identity == <<"legit", d_id % LegitIdSpace>>
            tier == TierOf(d_tier)
            k_fee == IF tier > 0 THEN 0 ELSE 1
        IN  \E d_fee \in Opt(k_fee, 3, [x \in Raw |-> RandomBelow(x, 3)]) :
        LET has_fee == HasFee(tier, d_fee)
            k_thr == ThrottleDraws(tier, has_fee, current_load_fraction)
        IN  \E d_thr \in Opt(k_thr, 3 + k_fee, [x \in Raw |-> RandomBelow(x, 5)]) :
        LET r == admit_transaction(identity, tier, has_fee, current_time,
                                   current_load_fraction, identity_last_access,
                                   rate_limit, d_thr)
            o == LegitOutcome(r.admitted, queue_depth, legitimate_admitted,
                              legitimate_dropped)
            k_jit == IF o.sample THEN 1 ELSE 0
        IN  \E d_jit \in Opt(k_jit, 3 + k_fee + k_thr, [x \in Raw |-> Normal(x)]) :
            /\ Advance(<<d_id, d_tier>> \o Once(k_fee, d_fee) \o Once(k_thr, d_thr)
                       \o Once(k_jit, d_jit))
            /\ identity_last_access' = r.last_access
            /\ last_call' = CallRecord("legit", identity, tier, has_fee, current_time,
                                       current_load_fraction, identity_last_access,
                                       rate_limit, r)
            /\ admitted_log' = LogAdmitted(admitted_log, identity, current_time, r)
            /\ overflow' = IF r.admitted /\ ~o.sample
                           THEN overflow \cup {<<identity, current_time>>} ELSE overflow
            /\ IF r.raised # "none"
               THEN /\ pc' = "raised"
                    /\ error' = r.raised
                    /\ UNCHANGED <<queue_depth, legitimate_admitted, legitimate_dropped,
                                   legitimate_latencies_ms, i_legit>>
               ELSE /\ UNCHANGED <<pc, error>>
                    /\ queue_depth' = o.queue_depth
                    /\ legitimate_admitted' = o.admitted
                    /\ legitimate_dropped' = o.dropped
                    /\ legitimate_latencies_ms' =
                          IF o.sample
                          THEN Append(legitimate_latencies_ms,
                                      LatencyOf(o.queue_depth, capacity_tps, Normal(d_jit)))
                          ELSE legitimate_latencies_ms
                    /\ i_legit' = i_legit + 1
    /\ UNCHANGED <<capacity_tps, legitimate_tps, sims, runs, rate_limit, scenario,
                   duration_ms, time_step_ms, current_time, attack_filtered,
                   n_legit, n_attack, i_attack, load_fraction, results,
                   legit_generated, attack_generated, saturated, step_depth,
                   reported, clock,
                   probe>>

\* one iteration of the attack loop
AttackArrival ==
    /\ pc = "step"
    /\ i_legit = n_legit
    /\ i_attack < n_attack
    /\ \E d_id \in DrawSet(1, [x \in Raw |-> x % AttackIdSpace]) :
        LET identity == <<"attack", d_id % AttackIdSpace>>
            k_thr == ThrottleDraws(0, FALSE, current_load_fraction)
        IN  \E d_thr \in Opt(k_thr, 2, [x \in Raw |-> RandomBelow(x, 5)]) :
        LET r == admit_transaction(identity, 0, FALSE, current_time,
                                   current_load_fraction, identity_last_access,
                                   rate_limit, d_thr)
            o == AttackOutcome(r.admitted, queue_depth, attack_filtered)
        IN  /\ Advance(<<d_id>> \o Once(k_thr, d_thr))
            /\ identity_last_access' = r.last_access
            /\ last_call' = CallRecord("attack", identity, 0, FALSE, current_time,
                                       current_load_fraction, identity_last_access,
                                       rate_limit, r)
            /\ admitted_log' = LogAdmitted(admitted_log, identity, current_time, r)
            /\ overflow' = IF r.admitted /\ o.queue_depth = queue_depth
                           THEN overflow \cup {<<identity, current_time>>} ELSE overflow
            /\ IF r.raised # "none"
               THEN /\ pc' = "raised"
                    /\ error' = r.raised
                    /\ UNCHANGED <<queue_depth, attack_filtered, i_attack>>
               ELSE /\ UNCHANGED <<pc, error>>
                    /\ queue_depth' = o.queue_depth
                    /\ attack_filtered' = o.filtered
                    /\ i_attack' = i_attack + 1
    /\ UNCHANGED <<capacity_tps, legitimate_tps, sims, runs, rate_limit, scenario,
                   duration_ms, time_step_ms, current_time, legitimate_admitted,
                   legitimate_dropped, legitimate_latencies_ms, n_legit, n_attack,
                   i_legit, load_fraction, results, legit_generated,
                   attack_generated, saturated, step_depth, reported, clock,
                   probe>>

\* mutant: the drain waits for the legitimate arrivals only
LoopsDone_legit == i_legit = n_legit

\* both for loops of the loop body have run through their arrivals
LoopsDone == i_legit = n_legit /\ i_attack = n_attack

\* the end of the loop body: drain the queue, advance the time
Drain ==
    /\ pc = "step"
    /\ LoopsDone
    /\ pc' = "loop"
    /\ queue_depth' = DrainQueue(queue_depth, capacity_tps, time_step_ms)
    /\ current_time' = current_time + time_step_ms
    /\ UNCHANGED <<error, capacity_tps, legitimate_tps, rng, tape, sims, runs,
                   rate_limit, identity_last_access, scenario, duration_ms,
                   time_step_ms, legitimate_admitted, legitimate_dropped,
                   attack_filtered, legitimate_latencies_ms, n_legit, n_attack,
                   i_legit, i_attack, load_fraction, results, legit_generated,
                   attack_generated, saturated, step_depth, reported,
                   last_call, admitted_log, overflow,
                   clock, probe>>

\* the DoSResult a finished run returns, with the object, the run, the
\* span of the generator's stream it comes from and the run's histories
ResultOf(p99) ==
    [sim |-> sims, run |-> runs, seed |-> rng.seed,
     capacity_tps |-> capacity_tps,
     scenario |-> scenario,
     simulation_duration_s |-> duration_ms,
     time_step_ms |-> time_step_ms,
     legitimate_offered_tps |-> legitimate_tps,
     attack_offered_tps |-> scenario.attack_tps,
     legitimate_admitted |-> legitimate_admitted,
     legitimate_dropped |-> legitimate_dropped,
     attack_filtered |-> attack_filtered,
     legitimate_p99_ms |-> p99,
     rng_end |-> rng.pos,
     attack_generated |-> attack_generated,
     saturated |-> saturated]

\* the loop exit: compute the p99 latency and return the DoSResult
Finish ==
    /\ pc = "loop"
    /\ current_time >= duration_ms
    /\ pc' = "done"
    /\ results' = Append(results,
                         ResultOf(P99Latency(legitimate_latencies_ms, capacity_tps)))
    /\ UNCHANGED <<error, capacity_tps, legitimate_tps, rng, tape, sims, runs,
                   rate_limit, identity_last_access, scenario, duration_ms,
                   time_step_ms, current_time, legitimate_admitted,
                   legitimate_dropped, attack_filtered, legitimate_latencies_ms,
                   queue_depth, n_legit, n_attack, i_legit, i_attack,
                   load_fraction, legit_generated, attack_generated, saturated,
                   step_depth, reported, last_call, admitted_log, overflow,
                   clock, probe>>

\* mutant: no test for a zero total; 0 / 0 raises
drop_rate_unguarded(r) ==
    [num |-> r.legitimate_dropped,
     den |-> r.legitimate_admitted + r.legitimate_dropped]

\* DoSResult.drop_rate, as a fraction [num / den]; den = 0 stands for the
\* division by zero
drop_rate(r) ==
    LET total == r.legitimate_admitted + r.legitimate_dropped
    IN  IF total = 0 THEN [num |-> 0, den |-> 1]
        ELSE [num |-> r.legitimate_dropped, den |-> total]

\* the caller reads drop_rate of the next returned DoSResult
Report ==
    /\ pc = "done"
    /\ Len(reported) < Len(results)
    /\ LET d == drop_rate(results[Len(reported) + 1])
       IN  IF d.den = 0
           THEN /\ pc' = "raised"
                /\ error' = "ZeroDivisionError"
                /\ UNCHANGED reported
           ELSE /\ reported' = Append(reported, d)
                /\ UNCHANGED <<pc, error>>
    /\ UNCHANGED <<capacity_tps, legitimate_tps, rng, tape, sims, runs,
                   rate_limit, identity_last_access, scenario, duration_ms,
                   time_step_ms, current_time, legitimate_admitted,
                   legitimate_dropped, attack_filtered, legitimate_latencies_ms,
                   queue_depth, n_legit, n_attack, i_legit, i_attack,
                   load_fraction, results, legit_generated, attack_generated,
                   saturated, step_depth, last_call, admitted_log, overflow,
                   clock, probe>>

(***************************************************************************)
(* The clock of the loop in the code's own arithmetic.  time_step_s,       *)
(* duration_s and current_time are binary64 values: time_step_ms / 1000.0  *)
(* and current_time += time_step_s round their exact result to 53          *)
(* significant bits, to nearest, ties to even.  A value v >= 0 is kept     *)
(* exactly, as the number v * 2^60 written in four limbs of 20 bits, the   *)
(* most significant first; this holds every binary64 value in [1/128, 4)   *)
(* and every exact sum of two of them.  In the runs of the other           *)
(* specifications every time is a multiple of 1/8 s, which binary64 adds   *)
(* without rounding, so that their current_time in milliseconds is exact.  *)
(***************************************************************************)
Limb == 1048576
Significand == 53

RECURSIVE Bits(_)
\* the number of binary digits of n
Bits(n) == IF n = 0 THEN 0 ELSE 1 + Bits(n \div 2)

\* the number of binary digits of a four-limb number
Width(x) ==
    IF x[1] > 0 THEN 60 + Bits(x[1])
    ELSE IF x[2] > 0 THEN 40 + Bits(x[2])
    ELSE IF x[3] > 0 THEN 20 + Bits(x[3])
    ELSE Bits(x[4])

\* the exact sum of two four-limb numbers
Plus(x, y) ==
    LET s4 == x[4] + y[4]
        s3 == x[3] + y[3] + s4 \div Limb
        s2 == x[2] + y[2] + s3 \div Limb
        s1 == x[1] + y[1] + s2 \div Limb
    IN  <<s1, s2 % Limb, s3 % Limb, s4 % Limb>>

\* the exact product of a four-limb number and a small natural number
Times(x, n) ==
    LET p4 == x[4] * n
        p3 == x[3] * n + p4 \div Limb
        p2 == x[2] * n + p3 \div Limb
        p1 == x[1] * n + p2 \div Limb
    IN  <<p1, p2 % Limb, p3 % Limb, p4 % Limb>>

\* x < y on four-limb numbers
Less(x, y) ==
    \E i \in 1 .. 4 : x[i] < y[i] /\ \A j \in 1 .. (i - 1) : x[j] = y[j]

\* the binary64 value nearest to x (ties to even); inexact tells that x is
\* itself the truncation of a longer exact value
Nearest(x, inexact) ==
    LET d == Width(x) - Significand
    IN  IF d <= 0 THEN x
        ELSE LET unit == 2 ^ d
                 low == x[4] % unit
                 down == <<x[1], x[2], x[3], x[4] - low>>
                 odd == (x[4] \div unit) % 2 = 1
                 up == \/ 2 * low > unit
                       \/ 2 * low = unit /\ (inexact \/ odd)
             IN  IF up THEN Plus(down, <<0, 0, 0, unit>>) ELSE down

\* x + y in binary64
FloatAdd(x, y) == Nearest(Plus(x, y), FALSE)

\* time_step_ms / 1000.0 in binary64, by long division of time_step_ms * 2^60
time_step_s(ms) ==
    LET q1 == ms \div 1000
        c2 == (ms % 1000) * Limb
        c3 == (c2 % 1000) * Limb
        c4 == (c3 % 1000) * Limb
    IN  Nearest(<<q1, c2 \div 1000, c3 \div 1000, c4 \div 1000>>, c4 % 1000 # 0)

\* a whole number of seconds as a binary64 value
Seconds(n) == <<n, 0, 0, 0>>

\* the (duration_s, time_step_ms) arguments of the clock, in s and in ms
ClockDurations == {0, 1, 2, 3}
ClockSteps == {100, 125, 200, 250, 500}

\* simulate_scenario, up to the loop: time_step_s and current_time
ClockStart ==
    /\ clock.pc \in {"none", "done"}
    /\ \E d \in ClockDurations, ms \in ClockSteps :
        clock' = [pc |-> "loop", duration_s |-> Seconds(d), time_step_ms |-> ms,
                  time_step_s |-> time_step_s(ms), current_time |-> Seconds(0),
                  steps |-> 0]
    /\ UNCHANGED runVars

\* one iteration of the loop: the test, the body, current_time += time_step_s
ClockStep ==
    /\ clock.pc = "loop"
    /\ Less(clock.current_time, clock.duration_s)
    /\ clock' = [clock EXCEPT !.current_time = FloatAdd(@, clock.time_step_s),
                              !.steps = @ + 1]
    /\ UNCHANGED runVars

\* the loop exit
ClockFinish ==
    /\ clock.pc = "loop"
    /\ ~Less(clock.current_time, clock.duration_s)
    /\ clock' = [clock EXCEPT !.pc = "done"]
    /\ UNCHANGED runVars

InitFree == InitCommon /\ tape = Unrecorded

\* one run of one simulator, the generator's draws being arbitrary
Next == Construct \/ Simulate \/ StepBegin \/ LegitArrival \/ AttackArrival
        \/ Drain \/ Finish
Spec == InitFree /\ [][Next]_vars


(***************************************************************************)
(* Several simulators and several runs under a seeded generator: a         *)
(* generator constructed from a seed replays the stream of that seed.      *)
(***************************************************************************)
InitSeeded == InitCommon /\ tape = [s \in Seeds |-> <<>>]

SeededCapacities == {4}
SeededRunArgs == {<<125, 125>>}
SeededAttackRates == {50000}

ConstructSeeded ==
    \E cap \in SeededCapacities, tps \in LegitRates, seed \in Seeds :
        SimInit(cap, tps, seed, MaxSims)

SimulateSeeded ==
    \E atk \in SeededAttackRates, args \in SeededRunArgs :
        SimStart(atk, args[1], args[2], MaxRuns)

NextSeeded == ConstructSeeded \/ SimulateSeeded \/ StepBegin \/ LegitArrival
              \/ AttackArrival \/ Drain \/ Finish
SpecSeeded == InitSeeded /\ [][NextSeeded]_vars

(***************************************************************************)
(* Construction with any configuration value, valid or not.                *)
(***************************************************************************)
AnyCapacities == {0, 40}
AnyRates == {0, rate_limit_per_sec}

ConstructAny ==
    \E cap \in AnyCapacities, tps \in LegitRates :
        SimInit(cap, tps, RANDOM_SEED, 1)

CtlConstructAny ==
    \E cap \in CtlCapacities, rate \in AnyRates : ControllerInit(cap, rate)

NextCfg == ConstructAny \/ Simulate \/ StepBegin \/ LegitArrival \/ AttackArrival
           \/ Drain \/ Finish \/ CtlConstructAny \/ CtlCall
SpecCfg == InitFree /\ [][NextCfg]_vars

(***************************************************************************)
(* One run, and the caller reading drop_rate of the returned DoSResult.    *)
(***************************************************************************)
NextReport == Construct \/ Simulate \/ StepBegin \/ LegitArrival \/ AttackArrival
              \/ Drain \/ Finish \/ Report
SpecReport == InitFree /\ [][NextReport]_vars

(***************************************************************************)
(* Two runs of one simulator, each with or without attack traffic, as main *)
(* runs the scenarios one after the other.                                 *)
(***************************************************************************)
FloodCapacities == {4}
FloodRunArgs == {<<250, 250>>}

ConstructFlood ==
    \E cap \in FloodCapacities, tps \in LegitRates :
        SimInit(cap, tps, RANDOM_SEED, 1)

SimulateFlood ==
    \E atk \in AttackRates, args \in FloodRunArgs :
        SimStart(atk, args[1], args[2], 2)

NextFlood == ConstructFlood \/ SimulateFlood \/ StepBegin \/ LegitArrival
             \/ AttackArrival \/ Drain \/ Finish
SpecFlood == InitFree /\ [][NextFlood]_vars

(***************************************************************************)
(* One run of two half-second steps, with a capacity of half a transaction *)
(* or of two transactions per step.                                        *)
(***************************************************************************)
DrainCapacities == {1, 4}
DrainRunArgs == {<<1000, 500>>}

ConstructDrain ==
    \E cap \in DrainCapacities, tps \in LegitRates :
        SimInit(cap, tps, RANDOM_SEED, 1)

SimulateDrain ==
    \E atk \in AttackRates, args \in DrainRunArgs :
        SimStart(atk, args[1], args[2], 1)

NextDrain == ConstructDrain \/ SimulateDrain \/ StepBegin \/ LegitArrival
             \/ AttackArrival \/ Drain \/ Finish
SpecDrain == InitFree /\ [][NextDrain]_vars

(***************************************************************************)
(* One run of one quarter-second step with a capacity of 1.25 or of 2.5    *)
(* transactions per step: one arrival, or two, give a load fraction of     *)
(* 0.8, the high mode.                                                     *)
(***************************************************************************)
HighCapacities == {5, 10}
HighRunArgs == {<<250, 250>>}

ConstructHigh ==
    \E cap \in HighCapacities, tps \in LegitRates :
        SimInit(cap, tps, RANDOM_SEED, 1)

SimulateHigh ==
    \E atk \in AttackRates, args \in HighRunArgs :
        SimStart(atk, args[1], args[2], 1)

NextHigh == ConstructHigh \/ SimulateHigh \/ StepBegin \/ LegitArrival
            \/ AttackArrival \/ Drain \/ Finish
SpecHigh == InitFree /\ [][NextHigh]_vars

(***************************************************************************)
(* One run of the Baseline scenario (attack_tps 0: no attack arrival is    *)
(* drawn and the attack loop has no iteration), of three steps of 125 ms   *)
(* with a capacity of half a transaction per step: nothing is drained, and *)
(* an identity can arrive again within the rate-limit window of 200 ms.    *)
(***************************************************************************)
BacklogCapacities == {4}
BacklogRunArgs == {<<375, 125>>}
BaselineRates == {0}

ConstructBacklog ==
    \E cap \in BacklogCapacities, tps \in LegitRates :
        SimInit(cap, tps, RANDOM_SEED, 1)

SimulateBacklog ==
    \E atk \in BaselineRates, args \in BacklogRunArgs :
        SimStart(atk, args[1], args[2], 1)

NextBacklog == ConstructBacklog \/ SimulateBacklog \/ StepBegin \/ LegitArrival
               \/ Drain \/ Finish
SpecBacklog == InitFree /\ [][NextBacklog]_vars

(***************************************************************************)
(* The clock of one run after the other, in binary64.                      *)
(***************************************************************************)
NextClock == ClockStart \/ ClockStep \/ ClockFinish
SpecClock == InitFree /\ [][NextClock]_vars

NextCtl == CtlConstruct \/ CtlCall
SpecCtl == InitFree /\ [][NextCtl]_vars

NextMode == GetMode
SpecMode == InitFree /\ [][NextMode]_vars

(***************************************************************************)
(* Properties.                                                             *)
(***************************************************************************)
Reasons == {"critical_mode_rejection", "tier0_suspended", "fee_required",
            "tier0_throttled", "rate_limited", "admitted"}
Severity(mode) ==
    IF mode = "normal" THEN 0 ELSE IF mode = "elevated" THEN 1
    ELSE IF mode = "high" THEN 2 ELSE 3
Called == last_call.kind # "none"
LatestResult == results[Len(results)]
\* the fields of a DoSResult that the run computes
Outcome(r) == <<r.legitimate_admitted, r.legitimate_dropped, r.attack_filtered,
                r.legitimate_p99_ms>>
\* the arguments two runs must share for their Results to be compared
SameRun(a, b) ==
    /\ a.seed = b.seed
    /\ a.capacity_tps = b.capacity_tps
    /\ a.legitimate_offered_tps = b.legitimate_offered_tps
    /\ a.scenario = b.scenario
    /\ a.simulation_duration_s = b.simulation_duration_s
    /\ a.time_step_ms = b.time_step_ms

\* C1: at every point of every time step (after each legitimate enqueue,
\* after each attack enqueue, after the drain) 0 <= queue_depth <= max_queue.
C1_QueueBounded == 0 <= queue_depth /\ queue_depth <= max_queue

\* C1 witness: an attack arrival was admitted while the queue was full, and
\* the queue is still at max_queue.
C1_Witness ==
    /\ pc = "step"
    /\ last_call.kind = "attack"
    /\ last_call.admitted
    /\ last_call.depth = max_queue
    /\ queue_depth = max_queue

\* C2: conservation.  Between steps and at the end of the run
\* legitimate_admitted + legitimate_dropped is the sum of n_legit over the
\* steps executed; inside a step each processed legitimate arrival has
\* incremented exactly one of the two counters once.
C2_Conservation ==
    /\ pc \in {"loop", "done"} =>
          legitimate_admitted + legitimate_dropped = legit_generated
    /\ pc = "step" =>
          legitimate_admitted + legitimate_dropped
             = legit_generated - n_legit + i_legit

\* C2 witness: a finished run in which a legitimate arrival was admitted by
\* the controller but found the queue full, after another was enqueued.
C2_Witness ==
    /\ pc = "done"
    /\ legit_generated >= 2
    /\ legitimate_admitted >= 1
    /\ legitimate_dropped >= 1
    /\ last_call.kind = "legit"
    /\ last_call.admitted
    /\ last_call.depth = max_queue

\* C3: with load >= critical_threshold, a call with tier < 2 or without fee
\* returns (False, "critical_mode_rejection") whatever the identity's last
\* access is; a call with tier >= 2 and a fee passes the mode gate and is
\* decided by the rate-limit check.
C3_CriticalGate ==
    (Called /\ last_call.load[1] * 100 >= critical_threshold * last_call.load[2]) =>
        IF last_call.tier < 2 \/ ~last_call.has_fee
        THEN ~last_call.admitted /\ last_call.reason = "critical_mode_rejection"
        ELSE /\ last_call.reason \in {"rate_limited", "admitted"}
             /\ last_call.reason = "rate_limited" <=>
                   /\ last_call.identity \in DOMAIN last_call.before
                   /\ (last_call.timestamp - last_call.before[last_call.identity])
                         * last_call.rate < 1000

\* C3 witness: a critical-mode rejection of an identity that is inside its
\* rate-limit window, the transaction carrying a fee.
C3_Witness ==
    /\ Called
    /\ last_call.reason = "critical_mode_rejection"
    /\ last_call.has_fee
    /\ last_call.identity \in DOMAIN last_call.before
    /\ last_call.timestamp - last_call.before[last_call.identity] = 199

\* C4: a call that survives the mode gate, for an identity admitted earlier
\* at t1 with timestamp - t1 < 1 / rate_limit, is rejected as rate_limited.
C4_RateLimitGate ==
    (Called /\ last_call.gate = "pass"
       /\ \E a \in last_call.prior :
             /\ a[1] = last_call.identity
             /\ (last_call.timestamp - a[2]) * last_call.rate < 1000)
    => (~last_call.admitted /\ last_call.reason = "rate_limited")

\* C4 witness: a tier-3 transaction with a fee, in critical mode, rejected as
\* rate_limited 199 ms after the admission of its identity.
C4_Witness ==
    /\ Called
    /\ last_call.reason = "rate_limited"
    /\ last_call.tier = 3
    /\ last_call.has_fee
    /\ get_congestion_mode(last_call.load) = "critical"
    /\ <<last_call.identity, last_call.timestamp - 199>> \in last_call.prior

\* C5: the first runs of two simulators constructed with the same seed and
\* configuration, called with the same arguments, consume the same draws
\* and return the same Result fields.
C5_Determinism ==
    \A a, b \in 1 .. Len(results) :
        (results[a].run = 1 /\ results[b].run = 1 /\ SameRun(results[a], results[b]))
        => /\ Outcome(results[a]) = Outcome(results[b])
           /\ results[a].rng_end = results[b].rng_end

\* C5 witness: two simulators with the same seed have each returned the
\* Result of a first run that admitted a legitimate transaction.
C5_Witness ==
    \E a, b \in 1 .. Len(results) :
        /\ results[a].sim # results[b].sim
        /\ results[a].run = 1
        /\ results[b].run = 1
        /\ SameRun(results[a], results[b])
        /\ results[a].legitimate_admitted > 0

\* C6: the Result of a run is a function of (configuration, scenario, seed,
\* duration) only, whether or not the same object simulated before.
C6_PureFunction ==
    \A a, b \in 1 .. Len(results) :
        SameRun(results[a], results[b]) => Outcome(results[a]) = Outcome(results[b])

\* C7: a configuration error is raised at construction; no error appears
\* once a run has started or the controller has been called.
C7_FailFast == error # "none" => (runs = 0 /\ ~Called)

\* C8: get_congestion_mode returns normal below elevated_threshold, elevated
\* from it to high_threshold, high from it to critical_threshold, critical
\* from there on; equal loads give equal modes and a larger load never gives
\* a less severe mode.
C8_ModeTable ==
    /\ \A k \in 1 .. Len(probe) :
          LET n == probe[k].load[1]
              d == probe[k].load[2]
          IN  probe[k].mode =
                 IF n * 100 < 60 * d THEN "normal"
                 ELSE IF n * 100 < 80 * d THEN "elevated"
                 ELSE IF n * 100 < 95 * d THEN "high"
                 ELSE "critical"
    /\ \A j, k \in 1 .. Len(probe) :
          probe[j].load[1] <= probe[k].load[1]
             => Severity(probe[j].mode) <= Severity(probe[k].mode)

\* C8 witness: a probe exactly at a threshold gave the more severe mode and
\* the probe before it, just below, the less severe one.
C8_Witness ==
    /\ Len(probe) = 2
    /\ probe[1].load[1] * 100 = high_threshold * probe[1].load[2]
    /\ probe[1].mode = "high"
    /\ probe[2].load[1] + 1 = probe[1].load[1]
    /\ probe[2].mode = "elevated"

\* C9: every call of admit_transaction returns, without raising, a pair
\* (admitted, reason) with reason one of the six enumerated reasons and
\* admitted true exactly when the reason is "admitted".
C9_Total ==
    /\ error = "none"
    /\ Called =>
          /\ last_call.raised = "none"
          /\ last_call.reason \in Reasons
          /\ last_call.admitted <=> last_call.reason = "admitted"

\* C9 witness: a tier-0 transaction without fee was throttled in elevated
\* mode.
C9_Witness ==
    /\ Called
    /\ last_call.reason = "tier0_throttled"
    /\ ~last_call.admitted

\* C10: a run that records no legitimate latency sample returns a complete
\* Result with legitimate_p99_ms = 0.0 and raises nothing.
C10_DegenerateP99 ==
    /\ legitimate_latencies_ms = <<>> => error = "none"
    /\ (pc = "done" /\ legitimate_latencies_ms = <<>>) =>
          /\ LatestResult.legitimate_p99_ms.num = 0
          /\ LatestResult.legitimate_p99_ms.den # 0
          /\ LatestResult.legitimate_admitted = 0
          /\ LatestResult.legitimate_dropped = legitimate_dropped
          /\ LatestResult.attack_filtered = attack_filtered

\* C10 witness: a finished run of at least one step whose legitimate
\* arrivals were all dropped.
C10_Witness ==
    /\ pc = "done"
    /\ legitimate_latencies_ms = <<>>
    /\ legitimate_dropped > 0
    /\ current_time > 0

\* C11: every drop_rate read from a returned DoSResult is
\* legitimate_dropped / (legitimate_admitted + legitimate_dropped) when that
\* sum is positive and 0.0 when it is zero, lies in [0, 1], and no read
\* raises a division error.
C11_DropRate ==
    /\ error = "none"
    /\ \A k \in 1 .. Len(reported) :
          LET r == results[k]
              d == reported[k]
              total == r.legitimate_admitted + r.legitimate_dropped
          IN  /\ d.den > 0
              /\ 0 <= d.num
              /\ d.num <= d.den
              /\ total > 0 => d.num * total = r.legitimate_dropped * d.den
              /\ total = 0 => d.num = 0

\* C11 witness: the drop_rate read from a run that both admitted and dropped
\* legitimate arrivals lies strictly between 0 and 1.
C11_Witness ==
    /\ Len(reported) = 1
    /\ results[1].legitimate_admitted > 0
    /\ results[1].legitimate_dropped > 0
    /\ 0 < reported[1].num
    /\ reported[1].num < reported[1].den

\* the Result of a run of at least one step under attack in which, in every
\* step, the attack arrivals alone offered at least capacity_tps
Flooded(r) ==
    /\ r.attack_offered_tps > r.capacity_tps
    /\ r.simulation_duration_s > 0
    /\ r.saturated.attack
\* the Result of the same run with attack_rate = 0
NoAttackTwin(a, b) ==
    /\ b.attack_offered_tps = 0
    /\ b.capacity_tps = a.capacity_tps
    /\ b.legitimate_offered_tps = a.legitimate_offered_tps
    /\ b.simulation_duration_s = a.simulation_duration_s
    /\ b.time_step_ms = a.time_step_ms
\* drop_rate(a) > drop_rate(b)
DropsMore(a, b) == drop_rate(a).num * drop_rate(b).den > drop_rate(b).num * drop_rate(a).den

\* C12 as stated: in a saturated flood run attack_filtered equals the number
\* of attack arrivals and the legitimate drop fraction is higher than in the
\* same run with attack_rate = 0.
C12_Flood ==
    \A a \in 1 .. Len(results) :
        Flooded(results[a]) =>
            /\ results[a].attack_filtered = results[a].attack_generated
            /\ \A b \in 1 .. Len(results) :
                  NoAttackTwin(results[a], results[b])
                     => DropsMore(results[a], results[b])

\* C12 amended: in a run under attack in which the arrivals alone saturate
\* every step, every attack arrival processed so far was filtered, and every
\* legitimate arrival with tier < 2 or without fee was rejected by the
\* controller and dropped; nothing is said of the drop fraction of another
\* run.
C12_FloodSaturated ==
    /\ (pc \in {"step", "loop", "done"} /\ saturated.arrivals
          /\ scenario.attack_tps > capacity_tps) =>
          /\ attack_filtered =
                IF pc = "step" THEN attack_generated - n_attack + i_attack
                ELSE attack_generated
          /\ (last_call.kind = "legit" /\ (last_call.tier < 2 \/ ~last_call.has_fee))
                => (~last_call.admitted /\ legitimate_dropped > 0)
    /\ \A a \in 1 .. Len(results) :
          (results[a].attack_offered_tps > results[a].capacity_tps
             /\ results[a].saturated.arrivals) =>
              results[a].attack_filtered = results[a].attack_generated

\* C12 witness: a saturated flood run has returned, all of its attack
\* arrivals filtered and a legitimate arrival dropped, after the no-attack
\* run with the same arguments, whose drop fraction is lower.
C12_Witness ==
    /\ Len(results) = 2
    /\ pc = "done"
    /\ Flooded(results[2])
    /\ results[2].attack_generated > 0
    /\ results[2].attack_filtered = results[2].attack_generated
    /\ results[2].legitimate_dropped > 0
    /\ NoAttackTwin(results[2], results[1])
    /\ DropsMore(results[2], results[1])

\* C13: in a run with scenario.attack_tps = 0 no step generates an attack
\* arrival, attack_filtered stays 0 up to the Result, no admit_transaction
\* call is made for an attack identity, and the identity table and the queue
\* hold legitimate admissions only.
C13_NoAttack ==
    (pc \in {"loop", "step", "done"} /\ scenario.attack_tps = 0) =>
        /\ n_attack = 0
        /\ attack_generated = 0
        /\ attack_filtered = 0
        /\ last_call.kind # "attack"
        /\ \A id \in DOMAIN identity_last_access : id[1] = "legit"
        /\ \A a \in admitted_log : a[1][1] = "legit"
        /\ queue_depth <= legitimate_admitted
        /\ pc = "done" => LatestResult.attack_filtered = 0

\* C13 witness: a no-attack run of two steps has returned after admitting
\* legitimate arrivals in both steps.
C13_Witness ==
    /\ pc = "done"
    /\ scenario.attack_tps = 0
    /\ current_time > time_step_ms
    /\ legitimate_admitted >= 2
    /\ LatestResult.attack_filtered = 0

\* C14: a call of admit_transaction that returns a rejection leaves
\* identity_last_access as it was before the call; a call that returns
\* admitted sets the entry of its own identity to the call's timestamp and
\* changes no other entry.
C14_WriteOnAdmit ==
    Called =>
        IF last_call.admitted
        THEN /\ DOMAIN identity_last_access
                   = (DOMAIN last_call.before) \cup {last_call.identity}
             /\ identity_last_access[last_call.identity] = last_call.timestamp
             /\ \A x \in DOMAIN last_call.before :
                   x # last_call.identity
                      => identity_last_access[x] = last_call.before[x]
        ELSE /\ last_call.reason \in Reasons \ {"admitted"}
             /\ identity_last_access = last_call.before

\* C14 witness: an attempt rate-limited 199 ms after the identity's
\* admission left the identity's entry at the time of that admission.
C14_Witness ==
    /\ Called
    /\ last_call.reason = "rate_limited"
    /\ last_call.timestamp = 199
    /\ last_call.identity \in DOMAIN identity_last_access
    /\ identity_last_access[last_call.identity] = 0
    /\ \E x \in DOMAIN identity_last_access : x # last_call.identity

\* C15: with high_threshold <= load < critical_threshold a tier-0 call is
\* rejected as tier0_suspended with or without a fee, a call with tier >= 1
\* and no fee is rejected as fee_required, and a call with tier >= 1 and a
\* fee passes the mode gate and is decided by the rate-limit check.
C15_HighMode ==
    (Called /\ last_call.load[1] * 100 >= high_threshold * last_call.load[2]
            /\ last_call.load[1] * 100 < critical_threshold * last_call.load[2]) =>
        IF last_call.tier = 0
        THEN ~last_call.admitted /\ last_call.reason = "tier0_suspended"
        ELSE IF ~last_call.has_fee
        THEN ~last_call.admitted /\ last_call.reason = "fee_required"
        ELSE /\ last_call.gate = "pass"
             /\ last_call.reason \in {"rate_limited", "admitted"}
             /\ last_call.reason = "rate_limited" <=>
                   /\ last_call.identity \in DOMAIN last_call.before
                   /\ (last_call.timestamp - last_call.before[last_call.identity])
                         * last_call.rate < 1000

\* C15 witness: at a load of exactly high_threshold a tier-0 transaction
\* carrying a fee was rejected as tier0_suspended.
C15_Witness ==
    /\ Called
    /\ last_call.load[1] * 100 = high_threshold * last_call.load[2]
    /\ last_call.tier = 0
    /\ last_call.has_fee
    /\ last_call.reason = "tier0_suspended"

\* C16: in elevated mode a tier-0 call without fee consumes one draw and is
\* rejected as tier0_throttled exactly when the draw is below 0.5; every
\* other call in elevated mode and every call in normal mode consumes no
\* draw and is decided by the rate-limit check alone; no call outside the
\* elevated throttle consumes a draw.
C16_ElevatedNormal ==
    Called =>
        LET n == last_call.load[1] * 100
            d == last_call.load[2]
            normal == n < elevated_threshold * d
            elevated == n >= elevated_threshold * d /\ n < high_threshold * d
            throttle == elevated /\ last_call.tier = 0 /\ ~last_call.has_fee
            window == /\ last_call.identity \in DOMAIN last_call.before
                      /\ (last_call.timestamp - last_call.before[last_call.identity])
                            * last_call.rate < 1000
        IN  /\ throttle =>
                  /\ last_call.draws = 1
                  /\ last_call.reason = "tier0_throttled" <=> last_call.draw * 2 < RawSpace
            /\ ~throttle => last_call.draws = 0
            /\ (normal \/ elevated) =>
                  /\ last_call.reason \in {"tier0_throttled", "rate_limited", "admitted"}
                  /\ last_call.reason = "tier0_throttled" => throttle
                  /\ last_call.reason # "tier0_throttled" =>
                        /\ last_call.gate = "pass"
                        /\ last_call.reason = "rate_limited" <=> window

\* C16 witness: at a load of exactly elevated_threshold a tier-0 call
\* without fee drew a value not below 0.5 and was admitted.
C16_Witness ==
    /\ Called
    /\ last_call.load[1] * 100 = elevated_threshold * last_call.load[2]
    /\ last_call.tier = 0
    /\ ~last_call.has_fee
    /\ last_call.draws = 1
    /\ last_call.draw * 2 >= RawSpace
    /\ last_call.admitted

\* C17: the load fraction of a step is min((queue depth at step start +
\* n_legit + n_attack) / time_step_s / capacity_tps, 1.0), lies in [0, 1],
\* and is the value every admit_transaction call of the step receives,
\* whatever the queue depth has become.
C17_FrozenLoad ==
    /\ load_fraction[2] > 0
    /\ 0 <= load_fraction[1]
    /\ load_fraction[1] <= load_fraction[2]
    /\ pc = "step" =>
          LET total == step_depth + n_legit + n_attack
          IN  IF total * 1000 >= time_step_ms * capacity_tps
              THEN load_fraction[1] = load_fraction[2]
              ELSE load_fraction[1] * time_step_ms * capacity_tps
                      = total * 1000 * load_fraction[2]
    /\ (pc = "step" /\ i_legit + i_attack > 0) =>
          /\ last_call.timestamp = current_time
          /\ last_call.load = load_fraction

\* C17 witness: an attack arrival was presented with the step's load
\* fraction 0.4 after a legitimate arrival of the same step had raised the
\* queue depth above its value at step start.
C17_Witness ==
    /\ pc = "step"
    /\ last_call.kind = "attack"
    /\ last_call.depth > step_depth
    /\ load_fraction[1] * 10 = 4 * load_fraction[2]
    /\ last_call.load = load_fraction

\* C18: a legitimate arrival increments legitimate_admitted and the queue
\* depth and appends one latency sample exactly when the controller admits
\* it and queue_depth < max_queue; otherwise it increments
\* legitimate_dropped and leaves the depth and the samples alone.  The
\* number of samples always equals legitimate_admitted.
C18_LegitAccounting ==
    /\ [](Len(legitimate_latencies_ms) = legitimate_admitted)
    /\ [][(pc = "step" /\ i_legit' = i_legit + 1) =>
            IF last_call'.admitted /\ queue_depth < max_queue
            THEN /\ legitimate_admitted' = legitimate_admitted + 1
                 /\ queue_depth' = queue_depth + 1
                 /\ Len(legitimate_latencies_ms') = Len(legitimate_latencies_ms) + 1
                 /\ SubSeq(legitimate_latencies_ms', 1, Len(legitimate_latencies_ms))
                       = legitimate_latencies_ms
                 /\ legitimate_dropped' = legitimate_dropped
            ELSE /\ legitimate_dropped' = legitimate_dropped + 1
                 /\ UNCHANGED <<legitimate_admitted, queue_depth,
                                legitimate_latencies_ms>>]_vars

\* C18 witness: inside a step, a legitimate arrival the controller admitted
\* found the queue full and was counted as dropped, the samples still as
\* many as the arrivals enqueued before it.
C18_Witness ==
    /\ pc = "step"
    /\ last_call.kind = "legit"
    /\ last_call.admitted
    /\ last_call.depth = max_queue
    /\ queue_depth = max_queue
    /\ legitimate_dropped > 0
    /\ legitimate_admitted > 0
    /\ Len(legitimate_latencies_ms) = legitimate_admitted

C20_Drain ==
    [][(pc = "step" /\ pc' = "loop") =>
        LET room == (capacity_tps * time_step_ms) \div 1000
            processed == IF queue_depth < room THEN queue_depth ELSE room
        IN  /\ queue_depth' = queue_depth - processed
            /\ queue_depth' = IF queue_depth - room > 0 THEN queue_depth - room ELSE 0
            /\ queue_depth' >= 0
            /\ UNCHANGED <<legitimate_admitted, legitimate_dropped, attack_filtered,
                           legitimate_latencies_ms, identity_last_access,
                           results>>]_vars

\* C20 witness: a step that ended with one queued transaction and a
\* capacity of five per step was drained to an empty queue.
C20_Witness ==
    /\ pc = "loop"
    /\ current_time > 0
    /\ (capacity_tps * time_step_ms) \div 1000 = 5
    /\ last_call.kind = "attack"
    /\ last_call.timestamp = current_time - time_step_ms
    /\ last_call.admitted
    /\ last_call.depth = 0
    /\ queue_depth = 0

\* C21: a run executes ceil(duration_s / time_step_s) iterations of the loop
\* and then returns: when the loop has ended after n iterations, n is the
\* least number with n * time_step_s >= duration_s (0 when duration_s <= 0)
C21_StepCount ==
    clock.pc = "done" =>
        LET n == clock.steps
        IN  /\ ~Less(Times(clock.time_step_s, n), clock.duration_s)
            /\ n > 0 => Less(Times(clock.time_step_s, n - 1), clock.duration_s)

\* C22: inside a step the two arrival counts are drawn first, then every
\* legitimate arrival is processed, then every attack arrival, then the
\* queue is drained once and only then the time advances; every call of a
\* step carries the step's start time as timestamp, and the timestamps the
\* controller sees over a run never decrease
C22_StepOrder ==
    [][/\ (pc = "loop" /\ pc' = "step") =>
              /\ i_legit' = 0 /\ i_attack' = 0
              /\ UNCHANGED <<last_call, queue_depth, current_time>>
       /\ (pc = "step" /\ pc' = "step") =>
              /\ UNCHANGED <<n_legit, n_attack, current_time, load_fraction>>
              /\ \/ /\ i_legit' = i_legit + 1 /\ i_legit < n_legit
                    /\ i_attack = 0 /\ i_attack' = 0
                    /\ last_call'.kind = "legit"
                 \/ /\ i_attack' = i_attack + 1 /\ i_attack < n_attack
                    /\ i_legit = n_legit /\ i_legit' = n_legit
                    /\ last_call'.kind = "attack"
              /\ last_call'.timestamp = current_time
              /\ Called => last_call.timestamp <= last_call'.timestamp
       /\ (pc = "step" /\ pc' = "loop") =>
              /\ i_legit = n_legit /\ i_attack = n_attack
              /\ queue_depth' = DrainQueue(queue_depth, capacity_tps, time_step_ms)
              /\ current_time' = current_time + time_step_ms
              /\ UNCHANGED last_call
       /\ current_time' # current_time =>
              \/ pc = "step" /\ pc' = "loop"
              \/ pc \in {"idle", "done"} /\ pc' = "loop" /\ current_time' = 0
      ]_vars

\* a step that does not start at time 0, with a legitimate arrival admitted
\* and then an attack arrival presented, both at the step's start time
C22_Witness ==
    /\ pc = "step"
    /\ current_time > 0
    /\ i_legit = 1 /\ i_attack = 1
    /\ last_call.kind = "attack"
    /\ last_call.timestamp = current_time
    /\ \E a \in last_call.prior : a[1][1] = "legit" /\ a[2] = current_time
    /\ \E a \in last_call.prior : a[2] < current_time

\* the transactions that entered the queue in the current run
Enqueued == admitted_log \ overflow

\* C23: a queue that receives no further transaction is empty within one
\* second of simulated time: at the end of a step the queue is non-empty
\* only if a transaction entered it less than one second before
C23_EmptiesInOneSecond ==
    (pc \in {"loop", "done"} /\ queue_depth > 0) =>
        \E e \in Enqueued : current_time - e[2] < 1000

\* C24: a legitimate arrival consumes its draws in one fixed order, and the
\* fee draw is taken for every arrival, whatever its tier: the arrival takes
\* the identity, tier and fee draws, then the throttle draw of the
\* controller if the call makes one, then the jitter draw if a latency
\* sample is recorded
C24_FixedDraws ==
    [][(pc = "step" /\ i_legit' = i_legit + 1) =>
           rng'.pos - rng.pos =
               3 + last_call'.draws
                 + (IF Len(legitimate_latencies_ms') > Len(legitimate_latencies_ms)
                    THEN 1 ELSE 0)
      ]_vars

\* C25: every simulate_scenario call starts with a new controller whose
\* identity table is empty, with queue depth 0 and with every counter 0, and
\* nothing of an earlier run on the same simulator is visible in a run: each
\* entry of the identity table is an admission of the current run, the queue
\* holds at most the transactions enqueued in it, and the counters count at
\* most its arrivals
C25_FreshRun ==
    /\ [](pc \in {"loop", "step", "done"} =>
            /\ \A id \in DOMAIN identity_last_access :
                   <<id, identity_last_access[id]>> \in admitted_log
            /\ queue_depth <= Cardinality(Enqueued)
            /\ legitimate_admitted + legitimate_dropped <= legit_generated
            /\ attack_filtered <= attack_generated
            /\ Len(legitimate_latencies_ms) = legitimate_admitted)
    /\ [][runs' = runs + 1 =>
              /\ identity_last_access' = EmptyMap
              /\ rate_limit' = rate_limit_per_sec
              /\ queue_depth' = 0
              /\ current_time' = 0
              /\ legitimate_admitted' = 0
              /\ legitimate_dropped' = 0
              /\ attack_filtered' = 0
              /\ legitimate_latencies_ms' = <<>>
         ]_vars

\* the second run of a simulator has started with an empty table and an
\* empty queue, the first run having ended with an admitted transaction in
\* the identity table and, nothing being drained, in the queue
C25_Witness ==
    /\ runs = 2
    /\ pc = "loop"
    /\ Len(results) = 1
    /\ results[1].sim = sims
    /\ results[1].legitimate_admitted = 1
    /\ DrainQueue(1, capacity_tps, results[1].time_step_ms) = 1
    /\ identity_last_access = EmptyMap
    /\ queue_depth = 0
    /\ legitimate_admitted = 0

\* C26: any two admitted calls of one identity have timestamps at least
\* 1 / rate_limit_per_sec apart, so that at one timestamp (in one time
\* step) at most one call per identity is admitted, a second one being
\* rate_limited; and the last-access time recorded for an identity never
\* decreases
C26_Spacing ==
    /\ [](\A a, b \in admitted_log :
              (a[1] = b[1] /\ a[2] < b[2]) => (b[2] - a[2]) * rate_limit >= 1000)
    /\ [](Called =>
              \A a \in last_call.prior :
                  a[1] = last_call.identity =>
                      /\ last_call.admitted =>
                             (last_call.timestamp - a[2]) * last_call.rate >= 1000
                      /\ (a[2] = last_call.timestamp /\ last_call.gate = "pass") =>
                             last_call.reason = "rate_limited")
    /\ [][runs' = runs =>
              \A id \in DOMAIN identity_last_access :
                  /\ id \in DOMAIN identity_last_access'
                  /\ identity_last_access'[id] >= identity_last_access[id]
         ]_vars

\* an identity whose last admission was at time 0 is admitted again exactly
\* 1 / rate_limit_per_sec later, and its last-access time moves forward
C26_Witness ==
    /\ Called
    /\ last_call.admitted
    /\ last_call.timestamp * last_call.rate = 1000
    /\ <<last_call.identity, 0>> \in last_call.prior
    /\ last_call.before[last_call.identity] = 0
    /\ identity_last_access[last_call.identity] = last_call.timestamp

\* the step under way began with a backlog of at least one step's capacity:
\* queue depth >= capacity_tps * time_step_s
Backlogged == pc = "step" /\ step_depth * 1000 >= capacity_tps * time_step_ms

\* the latest call belongs to the step under way
CalledInStep ==
    pc = "step" /\ Called /\ i_legit + i_attack > 0 /\ last_call.timestamp = current_time

\* C27: in a step that begins with queue depth >= capacity_tps * time_step_s
\* the load fraction is 1.0 and the mode critical whatever the arrival
\* counts, so that every attack arrival of the step is refused and a
\* legitimate arrival is admitted only with tier >= 2 and a fee
C27_BacklogCritical ==
    Backlogged =>
        /\ load_fraction[1] = load_fraction[2]
        /\ get_congestion_mode(load_fraction) = "critical"
        /\ \A a \in admitted_log : a[2] = current_time => a[1][1] = "legit"
        /\ CalledInStep =>
              /\ last_call.load = load_fraction
              /\ last_call.kind = "attack" => ~last_call.admitted
              /\ last_call.admitted => (last_call.tier >= 2 /\ last_call.has_fee)
              /\ (last_call.tier < 2 \/ ~last_call.has_fee) =>
                     last_call.reason = "critical_mode_rejection"

\* a step that begins with a backlog and draws no legitimate arrival and one
\* attack arrival, which is refused in critical mode
C27_Witness ==
    /\ Backlogged
    /\ step_depth > 0
    /\ n_legit = 0
    /\ i_attack = 1
    /\ CalledInStep
    /\ last_call.kind = "attack"
    /\ last_call.reason = "critical_mode_rejection"

\* C28: within a simulator run the reason fee_required is never produced:
\* a legitimate arrival of tier >= 1 has a fee and an attack arrival has
\* tier 0 and none, so that in high mode a transaction without a fee is a
\* tier-0 transaction, refused as tier0_suspended
C28_NoFeeRequired ==
    (Called /\ last_call.kind \in {"legit", "attack"}) =>
        /\ last_call.reason # "fee_required"
        /\ last_call.gate # "fee_required"
        /\ last_call.tier >= 1 => last_call.has_fee
        /\ last_call.kind = "attack" => (last_call.tier = 0 /\ ~last_call.has_fee)
        /\ (get_congestion_mode(last_call.load) = "high" /\ ~last_call.has_fee) =>
               (last_call.tier = 0 /\ last_call.reason = "tier0_suspended")

\* in high mode a legitimate tier-0 arrival without a fee is refused as
\* tier0_suspended
C28_Witness ==
    /\ Called
    /\ last_call.kind = "legit"
    /\ get_congestion_mode(last_call.load) = "high"
    /\ last_call.tier = 0
    /\ ~last_call.has_fee
    /\ last_call.reason = "tier0_suspended"

\* C29: a legitimate transaction that the controller admits while the queue
\* is full is counted as dropped, not as admitted, and is not enqueued, yet
\* its identity's last-access time is updated; a later call of that identity
\* within 1 / rate_limit_per_sec of the drop, if the mode lets it pass, is
\* refused as rate_limited
C29_DroppedButRecorded ==
    /\ [][(pc = "step" /\ pc' = "step" /\ i_legit' = i_legit + 1
             /\ last_call'.admitted /\ queue_depth = max_queue) =>
              /\ legitimate_dropped' = legitimate_dropped + 1
              /\ UNCHANGED <<legitimate_admitted, queue_depth, legitimate_latencies_ms>>
              /\ last_call'.identity \in DOMAIN identity_last_access'
              /\ identity_last_access'[last_call'.identity] = current_time
              /\ <<last_call'.identity, current_time>> \in overflow'
         ]_vars
    /\ [](Called =>
            \A o \in overflow \cap last_call.prior :
                (/\ o[1] = last_call.identity
                 /\ last_call.gate = "pass"
                 /\ (last_call.timestamp - o[2]) * last_call.rate < 1000)
                => (~last_call.admitted /\ last_call.reason = "rate_limited"))

\* an identity whose only admission met the full queue and was dropped is
\* refused as rate_limited one step later, with no transaction of its own
\* in the queue
C29_Witness ==
    /\ Called
    /\ last_call.kind = "legit"
    /\ last_call.reason = "rate_limited"
    /\ legitimate_dropped >= 2
    /\ \E o \in overflow \cap last_call.prior :
           /\ o[1] = last_call.identity
           /\ o[2] < last_call.timestamp
           /\ (last_call.timestamp - o[2]) * last_call.rate < 1000
    /\ \A e \in Enqueued : e[1] # last_call.identity

\* the attack arrivals of the current run the controller has admitted
AttackAdmitted == {a \in admitted_log : a[1][1] = "attack"}

\* the attack arrivals of the current run presented to the controller so far
AttackPresented ==
    attack_generated - (IF pc = "step" THEN n_attack - i_attack ELSE 0)

\* C30: attack_filtered counts exactly the attack arrivals the controller
\* refused, so it never exceeds the attack arrivals; an attack arrival the
\* controller admits while the queue is at max_queue is neither counted in
\* attack_filtered nor added to the queue, whose depth stays max_queue
C30_AttackNotConserved ==
    /\ [](pc \in {"loop", "step", "done"} =>
            /\ attack_filtered + Cardinality(AttackAdmitted) = AttackPresented
            /\ attack_filtered <= attack_generated)
    /\ [][(pc = "step" /\ pc' = "step" /\ i_attack' = i_attack + 1
             /\ last_call'.admitted /\ queue_depth = max_queue) =>
              /\ UNCHANGED <<attack_filtered, queue_depth>>
              /\ queue_depth' = max_queue
              /\ <<last_call'.identity, current_time>> \in overflow'
         ]_vars

\* a finished run in which the attack arrivals filtered and the attack
\* arrivals enqueued together are fewer than the attack arrivals: one was
\* admitted at the full queue
C30_Witness ==
    /\ pc = "done"
    /\ attack_generated > 0
    /\ \E a \in AttackAdmitted : a \in overflow
    /\ queue_depth <= max_queue
    /\ attack_filtered + Cardinality(AttackAdmitted \cap Enqueued) < attack_generated

====
